---- MODULE Spec2Model ----
(***************************************************************************)
(* Model of the analog clock of proctor_clock.py (Analog_Clock.py is the   *)
(* same program under older names): the coordinate Mapper, the Clock       *)
(* widget with its Tk event handlers, timer chain and optional worker      *)
(* thread, and the command-line entry point main.                          *)
(*                                                                         *)
(* Numbers that the program holds as Python floats are modelled as exact   *)
(* rationals <<n, d>> in lowest terms with d > 0.  Every input set below   *)
(* is chosen so that all values are dyadic rationals of small magnitude,   *)
(* on which IEEE double arithmetic is exact, so the rational model and the *)
(* program agree on them.                                                  *)
(***************************************************************************)
EXTENDS Integers, Sequences, FiniteSets, TLC

VARIABLES
    \* ---- Clock object and its environment
    delta_hours,   \* constructor argument: hours subtracted from UTC
    use_thread,    \* constructor argument is_use_thread
    img_ok,        \* HAS_PIL and os.path.exists(img_path)
    show_image,    \* self.show_image
    flu_img,       \* TRUE iff the attribute self.flu_img has been assigned
    width, height, \* size of the canvas (what winfo_width/height return)
    pad,           \* self.pad (rational)
    my_mapper,     \* self.my_mapper: [factor, c_1, c_2]
    d_minutes,     \* self.d_minutes
    d_hours,       \* self.d_hours
    utc,           \* current UTC time of day <<hour, minute, second>>
    title,         \* window title: "Clock" or the <<h, m, s>> last painted
    canvas,        \* canvas items: [bg, ovals, hands] (counts)
    pending,       \* number of poll callbacks registered with root.after
    alive,         \* the window exists (not destroyed)
    w_pc,          \* position of the worker thread inside poll
    w_i,           \* worker thread: loop index of redraw's tick loop
    w_hms,         \* worker thread: local hour, minute, second of paint_hms
    overlapped,    \* history: a redraw began while another was in progress
    early,         \* events handled while the worker thread was inside poll
    last,          \* history: the event that led to this state
    \* ---- history of the current run of add-minute commands
    streak,        \* number of consecutive add-minute commands
    base,          \* title shown when the run started
    \* ---- stand-alone use of the Mapper
    m_world, m_viewport, \* constructor arguments
    m_mapper,      \* "none", "ZeroDivisionError" or the constructed mapper
    m_pts,         \* the two world points given to window_to_viewport
    m_out,         \* "none" or the two screen points returned
    \* ---- main
    argv,          \* the argument list, argv[1] being the program name
    outcome        \* "none" or what main did

clockVars == <<delta_hours, use_thread, img_ok, show_image, flu_img, width,
               height, pad, my_mapper, d_minutes, d_hours, utc, title, canvas,
               pending, alive, w_pc, w_i, w_hms, overlapped, early, last>>
seekVars == <<streak, base>>
mapperVars == <<m_world, m_viewport, m_mapper, m_pts, m_out>>
mainVars == <<argv, outcome>>
vars == <<clockVars, seekVars, mapperVars, mainVars>>

----------------------------------------------------------------------------
(* Bounds of the model *)

\* key commands are accepted while |d_minutes| + |d_hours| stays within this
MaxOffset == 1
\* the canvas counts its ovals up to this number; more are counted as this
MaxOvals == 14
\* events that happen while the worker thread is still inside its poll
MaxEarly == 1
\* longest argument list given to main (program name included)
MaxArgs == 6

(* Program constants *)
MinutesPerHour == 60
HoursOnDial == 12
HoursPerDay == 24
TickCount == 12
PadDivisor == 16

----------------------------------------------------------------------------
(* Exact rational arithmetic standing for Python float arithmetic *)

Abs(n) == IF n < 0 THEN -n ELSE n

RECURSIVE Gcd(_, _)
Gcd(a, b) == IF b = 0 THEN a ELSE Gcd(b, a % b)

\* the rational n/d (d # 0) in lowest terms with positive denominator
Rat(n, d) ==
    LET g == Gcd(Abs(n), Abs(d))
        s == IF d < 0 THEN -1 ELSE 1
    IN  <<(s * n) \div g, (s * d) \div g>>

RInt(n) == <<n, 1>>
RAdd(a, b) == Rat(a[1] * b[2] + b[1] * a[2], a[2] * b[2])
RSub(a, b) == Rat(a[1] * b[2] - b[1] * a[2], a[2] * b[2])
RMul(a, b) == Rat(a[1] * b[1], a[2] * b[2])
RNeg(a) == <<-a[1], a[2]>>
RLess(a, b) == a[1] * b[2] < b[1] * a[2]
\* min() taken for max()
RMax(a, b) == IF RLess(a, b) THEN b ELSE a
RMin(a, b) == IF RLess(b, a) THEN b ELSE a
RAbs(a) == <<Abs(a[1]), a[2]>>
RHalf == Rat(1, 2)

\* float(a) / float(b) for b # 0
RDiv(a, b) == Rat(a[1] * b[2], a[2] * b[1])

----------------------------------------------------------------------------
(* class Mapper *)

\* Mapper.__init__: world and viewport are <<min x, min y, max x, max y>> of
\* rationals.  The two divisions raise ZeroDivisionError on a world rectangle
\* of zero width or height; nothing else is checked.
Mapper(world, viewport) ==
    LET x_world == RSub(world[3], world[1])
        y_world == RSub(world[4], world[2])
        x_factor == RDiv(RSub(viewport[3], viewport[1]), x_world)
        y_factor == RDiv(RSub(viewport[4], viewport[2]), y_world)
        factor == RMin(x_factor, y_factor)
        x_center_world == RMul(RHalf, RAdd(world[1], world[3]))
        y_center_world == RMul(RHalf, RAdd(world[2], world[4]))
        x_center_viewport == RMul(RHalf, RAdd(viewport[1], viewport[3]))
        y_center_viewport == RMul(RHalf, RAdd(viewport[2], viewport[4]))
    IN  IF x_world[1] = 0 \/ y_world[1] = 0
        THEN [status |-> "ZeroDivisionError", factor |-> RInt(0),
              c_1 |-> RInt(0), c_2 |-> RInt(0)]
        ELSE [status |-> "ok", factor |-> factor,
              c_1 |-> RSub(x_center_viewport, RMul(factor, x_center_world)),
              c_2 |-> RSub(y_center_viewport, RMul(factor, y_center_world))]

\* _window_to_viewport without the centre offsets
PointToViewportNoOffset(m, x_world, y_world) ==
    <<RMul(m.factor, x_world), RMul(m.factor, RNeg(y_world))>>

\* Mapper._window_to_viewport: one world point to one screen point
PointToViewport(m, x_world, y_world) ==
    <<RAdd(RMul(m.factor, x_world), m.c_1),
      RAdd(RMul(m.factor, RNeg(y_world)), m.c_2)>>

\* Mapper.window_to_viewport: two world points to two screen points
window_to_viewport(m, x_world_1, y_world_1, x_world_2, y_world_2) ==
    <<PointToViewport(m, x_world_1, y_world_1),
      PointToViewport(m, x_world_2, y_world_2)>>

----------------------------------------------------------------------------
(* class Clock: values computed by its methods *)

\* self.world
ClockWorld == <<RInt(-1), RInt(-1), RInt(1), RInt(1)>>

\* a remainder with the sign of a, as C's % gives
TruncMod(a, n) == IF a >= 0 THEN a % n ELSE -((-a) % n)

\* Python's a % n for n > 0: the result has the sign of n
PyMod(a, n) == a - n * (a \div n)

\* datetime.timetuple(datetime.utcnow() - self.delta): hour, minute, second
timetuple(u, delta) == <<PyMod(u[1] - delta, HoursPerDay), u[2], u[3]>>

\* paint_hms: the minute and the hour after the stored offsets are applied
AdjustMinute(minute, dm) == PyMod(minute + dm, MinutesPerHour)
AdjustHour(hour, dh) == PyMod(hour + dh, HoursOnDial)
\* paint_hms carrying whole hours of the offset minute into the hour
paint_hms_time_carry(t, dm, dh) ==
    <<PyMod(t[1] + dh + ((t[2] + dm) \div MinutesPerHour), HoursOnDial),
      PyMod(t[2] + dm, MinutesPerHour), t[3]>>
paint_hms_time(t, dm, dh) == <<AdjustHour(t[1], dh), AdjustMinute(t[2], dm), t[3]>>

\* root.title('%02i:%02i:%02i' % (hour, minute, second))
TitleOf(hms) == [kind |-> "time", hms |-> hms]
TitleClock == [kind |-> "Clock", hms |-> <<0, 0, 0>>]

\* the padded viewport handed to the Mapper
Viewport(p, w, h) == <<p, p, RSub(RInt(w), p), RSub(RInt(h), p)>>

\* canvas operations
Min(a, b) == IF a < b THEN a ELSE b
EmptyCanvas == [bg |-> "none", ovals |-> 0, hands |-> 0]
create_oval(cv) == [cv EXCEPT !.ovals = Min(@ + 1, MaxOvals)]
create_line(cv) == [cv EXCEPT !.hands = @ + 1]
delete_handles(cv) == [cv EXCEPT !.hands = 0]

\* paint_circle: one untagged oval
paint_circle(cv) == create_oval(cv)

\* redraw's loop over the twelve ticks, from index i on
RECURSIVE paint_ticks(_, _)
paint_ticks(cv, i) ==
    IF i >= TickCount THEN cv ELSE paint_ticks(paint_circle(cv), i + 1)

\* paint_hms on the canvas: delete the tagged hands, draw three new ones
paint_hms_canvas(cv) == create_line(create_line(create_line(delete_handles(cv))))

\* redraw on the canvas
redraw_canvas(cv, show) ==
    LET c == paint_hms_canvas(paint_ticks(cv, 0))
    IN  IF ~show THEN paint_circle(c) ELSE c

----------------------------------------------------------------------------
(* Inputs of the Clock *)

\* time zones given to the constructor (main's default is 5)
Deltas == {5}
\* canvas sizes <<width, height>> given to the constructor and by resizes
Sizes == {<<400, 400>>, <<800, 100>>}
\* UTC times of day the system clock is read at
Times == {<<4, 59, 59>>, <<5, 0, 0>>}

NoTime == <<0, 0, 0>>

cfgVars == <<delta_hours, use_thread, img_ok>>
geomVars == <<width, height, pad, my_mapper>>
imgVars == <<show_image, flu_img>>
offVars == <<d_minutes, d_hours>>
workerVars == <<w_pc, w_i, w_hms>>
otherVars == <<seekVars, mapperVars, mainVars>>

\* the worker thread is inside redraw
WorkerInRedraw ==
    w_pc \in {"ticks", "delete", "read", "title", "hour", "minute", "second", "centre"}

\* the worker thread is inside poll
WorkerRunning == w_pc \notin {"none", "done"}

----------------------------------------------------------------------------
(* class Clock: methods run by the Tk event loop, each as one step *)

\* Clock.redraw run by the event loop on canvas cv with the given image
\* mode and offsets
redraw(cv, show, dm, dh) ==
    /\ canvas' = redraw_canvas(cv, show)
    /\ title' = TitleOf(paint_hms_time(timetuple(utc, delta_hours), dm, dh))
    /\ overlapped' = (overlapped \/ WorkerInRedraw)

\* Clock.seek_time
seek_time(hour_change, minute_change) ==
    /\ d_minutes' = d_minutes + minute_change
    /\ d_hours' = d_hours + hour_change
    /\ redraw(canvas, show_image, d_minutes + minute_change, d_hours + hour_change)
    /\ UNCHANGED <<cfgVars, geomVars, imgVars, workerVars, utc, pending, alive>>

add_minute == seek_time(0, 1)
subtract_minute == seek_time(0, -1)
add_hour == seek_time(1, 0)
subtract_hour == seek_time(-1, 0)

\* reset_time clearing the hour offset only
reset_time_hours_only ==
    /\ d_hours' = 0
    /\ d_minutes' = d_minutes
    /\ redraw(canvas, show_image, d_minutes, 0)
    /\ UNCHANGED <<cfgVars, geomVars, imgVars, workerVars, utc, pending, alive>>

\* Clock.reset_time
reset_time ==
    /\ d_hours' = 0
    /\ d_minutes' = 0
    /\ redraw(canvas, show_image, 0, 0)
    /\ UNCHANGED <<cfgVars, geomVars, imgVars, workerVars, utc, pending, alive>>

\* Clock.resize with the canvas now w by h and self.show_image being show.
\* In image mode self.flu_img is read: when the attribute was never assigned
\* the handler ends there with AttributeError, the canvas erased.
resize(w, h, show) ==
    LET p == Rat(Min(w, h), PadDivisor)
        loaded == show => flu_img
        cv == [EmptyCanvas EXCEPT !.bg = IF show THEN "image" ELSE "rectangle"]
    IN  /\ width' = w
        /\ height' = h
        /\ pad' = p
        /\ my_mapper' = Mapper(ClockWorld, Viewport(p, w, h))
        /\ IF loaded
           THEN redraw(cv, show, d_minutes, d_hours)
           ELSE canvas' = EmptyCanvas /\ UNCHANGED <<title, overlapped>>
        /\ UNCHANGED <<cfgVars, flu_img, offVars, workerVars, utc, pending, alive>>

\* Clock.toggle_image
toggle_image ==
    IF img_ok
    THEN /\ show_image' = ~show_image
         /\ resize(width, height, ~show_image)
    ELSE UNCHANGED <<cfgVars, geomVars, imgVars, offVars, workerVars, utc, title,
                     canvas, pending, alive, overlapped>>

\* poll without the root.after call
poll_once ==
    /\ redraw(canvas, show_image, d_minutes, d_hours)
    /\ pending' = pending - 1
    /\ UNCHANGED <<cfgVars, geomVars, imgVars, offVars, workerVars, utc, alive>>

\* Clock.poll as a timer callback
poll ==
    /\ redraw(canvas, show_image, d_minutes, d_hours)
    /\ pending' = (pending - 1) + 1
    /\ UNCHANGED <<cfgVars, geomVars, imgVars, offVars, workerVars, utc, alive>>

\* the <Escape> binding: root.destroy()
destroy ==
    /\ alive' = FALSE
    /\ UNCHANGED <<cfgVars, geomVars, imgVars, offVars, workerVars, utc, title,
                   canvas, pending, overlapped>>

----------------------------------------------------------------------------
(* MakeThread.run: Clock.poll on the worker thread, one Tk call per step *)

worker_step ==
    /\ CASE w_pc = "start" ->
              /\ canvas' = paint_circle(canvas)
              /\ w_i' = 1
              /\ w_pc' = "ticks"
              /\ UNCHANGED <<w_hms, title, pending>>
         [] w_pc = "ticks" ->
              /\ canvas' = paint_circle(canvas)
              /\ w_i' = w_i + 1
              /\ w_pc' = IF w_i + 1 >= TickCount THEN "delete" ELSE "ticks"
              /\ UNCHANGED <<w_hms, title, pending>>
         [] w_pc = "delete" ->
              /\ canvas' = delete_handles(canvas)
              /\ w_pc' = "read"
              /\ UNCHANGED <<w_i, w_hms, title, pending>>
         [] w_pc = "read" ->
              /\ w_hms' = paint_hms_time(timetuple(utc, delta_hours), d_minutes, d_hours)
              /\ w_pc' = "title"
              /\ UNCHANGED <<w_i, canvas, title, pending>>
         [] w_pc = "title" ->
              /\ title' = TitleOf(w_hms)
              /\ w_pc' = "hour"
              /\ UNCHANGED <<w_i, w_hms, canvas, pending>>
         [] w_pc = "hour" ->
              /\ canvas' = create_line(canvas)
              /\ w_pc' = "minute"
              /\ UNCHANGED <<w_i, w_hms, title, pending>>
         [] w_pc = "minute" ->
              /\ canvas' = create_line(canvas)
              /\ w_pc' = "second"
              /\ UNCHANGED <<w_i, w_hms, title, pending>>
         [] w_pc = "second" ->
              /\ canvas' = create_line(canvas)
              /\ w_hms' = NoTime
              /\ w_pc' = "centre"
              /\ UNCHANGED <<w_i, title, pending>>
         [] w_pc = "centre" ->
              /\ canvas' = IF ~show_image THEN paint_circle(canvas) ELSE canvas
              /\ w_pc' = "after"
              /\ UNCHANGED <<w_i, w_hms, title, pending>>
         [] w_pc = "after" ->
              /\ pending' = pending + 1
              /\ w_pc' = "done"
              /\ UNCHANGED <<w_i, w_hms, title, canvas>>
    /\ UNCHANGED <<cfgVars, geomVars, imgVars, offVars, utc, alive, overlapped>>

----------------------------------------------------------------------------
(* Clock.__init__ *)

IdleSeek == streak = 0 /\ base = TitleClock
IdleMapper ==
    /\ m_world = <<0, 0, 0, 0>>
    /\ m_viewport = <<0, 0, 0, 0>>
    /\ m_mapper = [status |-> "none", factor |-> RInt(0), c_1 |-> RInt(0), c_2 |-> RInt(0)]
    /\ m_pts = <<0, 0, 0, 0>>
    /\ m_out = <<>>
IdleMain ==
    /\ argv = <<>>
    /\ outcome = [status |-> "none", delta_hours |-> 0, is_show_image |-> FALSE,
                  width |-> 0, height |-> 0, is_use_thread |-> FALSE]

\* the state the constructor leaves: with is_use_thread the worker thread is
\* started and has not run yet, otherwise poll has run once inline
ClockConstructed(dh, is_show_image, w, h, thr, ok, t) ==
    LET show == IF ok THEN is_show_image ELSE FALSE
        p == Rat(w, PadDivisor)
    IN  /\ delta_hours = dh
        /\ use_thread = thr
        /\ img_ok = ok
        /\ show_image = show
        /\ flu_img = show
        /\ width = w
        /\ height = h
        /\ pad = p
        /\ my_mapper = Mapper(ClockWorld, Viewport(p, w, h))
        /\ d_minutes = 0
        /\ d_hours = 0
        /\ utc = t
        /\ alive = TRUE
        /\ w_i = 0
        /\ w_hms = NoTime
        /\ overlapped = FALSE
        /\ early = 0
        /\ last = "init"
        /\ IF thr
           THEN /\ w_pc = "start"
                /\ title = TitleClock
                /\ canvas = EmptyCanvas
                /\ pending = 0
           ELSE /\ w_pc = "none"
                /\ title = TitleOf(paint_hms_time(timetuple(t, dh), 0, 0))
                /\ canvas = redraw_canvas(EmptyCanvas, show)
                /\ pending = 1

Init ==
    /\ \E dh \in Deltas, is_show_image \in BOOLEAN, sz \in Sizes,
          thr \in BOOLEAN, ok \in BOOLEAN, t \in Times :
          ClockConstructed(dh, is_show_image, sz[1], sz[2], thr, ok, t)
    /\ IdleSeek /\ IdleMapper /\ IdleMain

----------------------------------------------------------------------------
(* The running clock: events of the Tk event loop, the worker thread and   *)
(* the passing of time                                                     *)

\* an event other than a step of the worker thread may happen
Event == alive /\ (WorkerRunning => early < MaxEarly)
CountEvent(name) ==
    /\ early' = IF WorkerRunning THEN early + 1 ELSE early
    /\ last' = name
InReach(dm, dh) == Abs(dm) + Abs(dh) <= MaxOffset

KeyF ==
    /\ Event /\ InReach(d_minutes + 1, d_hours)
    /\ add_minute /\ CountEvent("key_f") /\ UNCHANGED otherVars
KeyV ==
    /\ Event /\ InReach(d_minutes - 1, d_hours)
    /\ subtract_minute /\ CountEvent("key_v") /\ UNCHANGED otherVars
KeyShiftF ==
    /\ Event /\ InReach(d_minutes, d_hours + 1)
    /\ add_hour /\ CountEvent("key_F") /\ UNCHANGED otherVars
KeyShiftV ==
    /\ Event /\ InReach(d_minutes, d_hours - 1)
    /\ subtract_hour /\ CountEvent("key_V") /\ UNCHANGED otherVars
KeySpace ==
    /\ Event /\ reset_time
    /\ CountEvent(IF d_minutes # 0 \/ d_hours # 0 THEN "reset" ELSE "reset_idle")
    /\ UNCHANGED otherVars
KeyI == Event /\ toggle_image /\ CountEvent("toggle") /\ UNCHANGED otherVars
KeyEscape == Event /\ destroy /\ CountEvent("escape") /\ UNCHANGED otherVars
Configure ==
    /\ Event
    /\ \E sz \in Sizes : resize(sz[1], sz[2], show_image) /\ UNCHANGED show_image
    /\ CountEvent("resize") /\ UNCHANGED otherVars
Poll ==
    /\ alive /\ pending > 0 /\ poll
    /\ last' = "poll"
    /\ UNCHANGED <<early, otherVars>>
WorkerStep ==
    /\ alive /\ WorkerRunning
    /\ worker_step
    /\ early' = IF w_pc = "after" THEN 0 ELSE early
    /\ last' = "worker"
    /\ UNCHANGED otherVars
TimePasses ==
    /\ Event
    /\ \E t \in Times \ {utc} : utc' = t
    /\ CountEvent("time")
    /\ UNCHANGED <<cfgVars, geomVars, imgVars, offVars, workerVars, title,
                   canvas, pending, alive, overlapped>>
    /\ UNCHANGED otherVars

Next ==
    \/ KeyF \/ KeyV \/ KeyShiftF \/ KeyShiftV \/ KeySpace \/ KeyI \/ KeyEscape
    \/ Configure \/ Poll \/ WorkerStep \/ TimePasses

Spec == Init /\ [][Next]_vars

\* The Tk event loop runs every timer callback that is due, and the operating
\* system schedules the worker thread.
FairSpec == Spec /\ WF_vars(Poll) /\ WF_vars(WorkerStep)

----------------------------------------------------------------------------
(* Properties of the running clock *)

\* the hour, minute and second of the system time: UTC minus the time zone,
\* on a twelve-hour dial
SystemTime == <<((utc[1] - delta_hours) % 24) % 12, utc[2], utc[3]>>

\* the title shows the current time with the stored offsets applied
TitleFresh ==
    title = TitleOf(<<(SystemTime[1] + d_hours) % 12, (SystemTime[2] + d_minutes) % 60,
                      SystemTime[3]>>)

\* C1: a reset (Space), after any sequence of add/subtract minute/hour
\* commands, leaves both stored offsets zero, and the redraw it performs
\* shows the hour and minute of the unmodified system time.
ResetRestoresSystemTime ==
    last \in {"reset", "reset_idle"} =>
        /\ d_minutes = 0
        /\ d_hours = 0
        /\ title.kind = "time"
        /\ title.hms[1] = SystemTime[1]
        /\ title.hms[2] = SystemTime[2]

\* a reset has just undone offsets that earlier commands had stored
ResetAfterCommands == last = "reset" /\ title = TitleOf(SystemTime)

\* C3: no two executions of redraw overlap, in inline mode and in thread
\* mode: a redraw never begins while another one is in progress.
NoOverlappingRedraws == ~overlapped

\* C4: the timer chain never stops and never multiplies: while the window
\* exists exactly one poll is pending or running, and a redraw happens
\* again and again (the title catches up with the time and offsets).
PollsInFlight == pending + (IF WorkerRunning THEN 1 ELSE 0)
TimerChainRuns ==
    /\ [](alive => PollsInFlight = 1)
    /\ []<>(~alive \/ TitleFresh)

\* a timer callback scheduled by the worker thread's poll has run
TimerFiredInThreadMode == use_thread /\ last = "poll" /\ pending = 1 /\ alive

\* C5: the minute used for the hands and the title lies in [0,60) and the
\* hour in [0,12), also for negative offsets.
InDial(hms) == hms[1] \in 0 .. 11 /\ hms[2] \in 0 .. 59
DisplayedTimeInRange == InDial(title.hms) /\ InDial(w_hms)

\* a negative minute offset wrapped the minute 0 round to 59
NegativeOffsetShown ==
    /\ d_minutes < 0
    /\ utc[2] = 0
    /\ title = TitleOf(<<SystemTime[1], 59, SystemTime[3]>>)

\* C10: a timer tick is a pure re-render: the number of items on the canvas
\* does not grow from one tick to the next.
ItemCount(cv) == cv.ovals + cv.hands + (IF cv.bg = "none" THEN 0 ELSE 1)
TickDoesNotGrowCanvas == [][Poll => ItemCount(canvas') <= ItemCount(canvas)]_vars

\* no redraw is in progress and the first one has been made: the event loop
\* is between handlers and the worker thread is not inside its poll
AtRest == alive /\ ~WorkerRunning

\* C11: hands never accumulate: whenever no redraw is in progress the canvas
\* holds exactly three items tagged as hands.
ThreeHandsAtRest == AtRest => canvas.hands = 3

\* the same in thread mode with an image mode that never fails to load, so
\* that only the worker thread's redraw can have changed the count
ThreeHandsAfterWorker == (AtRest /\ use_thread /\ (show_image => flu_img)) => canvas.hands = 3

\* C12: whenever image mode is on, the background image has been loaded, so
\* a resize in image mode never reads an image that was not loaded.
ImageLoadedInImageMode == show_image => flu_img

\* the viewport the clock handed to its mapper
ClockViewport == Viewport(pad, width, height)

\* C13: the viewport handed to the mapper, at construction and at every
\* resize, has strictly positive width and height (the padding is less than
\* half of each dimension), and the mapper's scale factor is strictly positive.
ViewportPositive ==
    /\ RLess(ClockViewport[1], ClockViewport[3])
    /\ RLess(ClockViewport[2], ClockViewport[4])
    /\ RLess(RInt(0), my_mapper.factor)

\* the same for the viewports computed by resize alone (a toggle resizes
\* only when the image can be used)
ViewportPositiveAfterResize ==
    (last = "resize" \/ (last = "toggle" /\ img_ok)) => ViewportPositive

----------------------------------------------------------------------------
(* Runs of the add-minute command at a fixed system time *)

\* a clock built with main's defaults (no thread) at one of the times; the
\* image file may or may not be there
SeekInit ==
    /\ \E dh \in Deltas, ok \in BOOLEAN, t \in Times :
          ClockConstructed(dh, TRUE, 400, 400, FALSE, ok, t)
    /\ streak = 0
    /\ base = title
    /\ IdleMapper /\ IdleMain

\* one more add-minute command of the current run
SeekF ==
    /\ alive /\ streak < MinutesPerHour
    /\ d_minutes < MaxOffset + MinutesPerHour
    /\ add_minute
    /\ streak' = streak + 1
    /\ last' = "key_f"
    /\ UNCHANGED <<base, early, mapperVars, mainVars>>

\* another offset command: the run starts again from what is shown then
SeekOther ==
    /\ alive
    /\ \/ d_minutes > -MaxOffset /\ subtract_minute
       \/ d_hours < MaxOffset /\ add_hour
       \/ d_hours > -MaxOffset /\ subtract_hour
       \/ reset_time
    /\ streak' = 0
    /\ base' = title'
    /\ last' = "key"
    /\ UNCHANGED <<early, mapperVars, mainVars>>

SeekNext == SeekF \/ SeekOther

SpecSeek == SeekInit /\ [][SeekNext]_vars

\* C2: at a fixed system time, 60 add-minute commands in a row bring the
\* displayed minute back to where it was and leave the displayed hour alone.
SixtyMinutesWrap ==
    streak = 60 =>
        /\ title.kind = "time"
        /\ title.hms[2] = base.hms[2]
        /\ title.hms[1] = base.hms[1]

\* sixty add-minute commands were given starting from a negative offset
SixtyMinutesAdded == streak = 60 /\ d_minutes = 59 /\ d_hours # 0

----------------------------------------------------------------------------
(* The Mapper used on its own *)

\* a clock built with main's defaults, left alone
IdleClock == ClockConstructed(5, TRUE, 400, 400, FALSE, FALSE, <<5, 0, 0>>)

\* coordinates of world rectangles and world points, and of viewports
WorldCoords == {-1, 0, 1}
ViewCoords == {0, 200, 400}

\* rectangles <<min x, min y, max x, max y>>, the degenerate ones included
Rects(S) == {r \in S \X S \X S \X S : r[1] <= r[3] /\ r[2] <= r[4]}

RRect(r) == <<RInt(r[1]), RInt(r[2]), RInt(r[3]), RInt(r[4])>>

MapperInit ==
    /\ m_world \in Rects(WorldCoords)
    /\ m_viewport \in Rects(ViewCoords)
    /\ m_mapper = [status |-> "none", factor |-> RInt(0), c_1 |-> RInt(0), c_2 |-> RInt(0)]
    /\ m_pts = <<0, 0, 0, 0>>
    /\ m_out = <<>>
    /\ IdleClock /\ IdleSeek /\ IdleMain

\* Mapper(world, viewport)
MapperConstruct ==
    /\ m_mapper.status = "none"
    /\ m_mapper' = Mapper(RRect(m_world), RRect(m_viewport))
    /\ UNCHANGED <<m_world, m_viewport, m_pts, m_out, clockVars, seekVars, mainVars>>

\* mapper.window_to_viewport(x1, y1, x2, y2)
MapPoints ==
    /\ m_mapper.status = "ok"
    /\ m_out = <<>>
    /\ \E pts \in WorldCoords \X WorldCoords \X WorldCoords \X WorldCoords :
          /\ m_pts' = pts
          /\ m_out' = window_to_viewport(m_mapper, RInt(pts[1]), RInt(pts[2]),
                                         RInt(pts[3]), RInt(pts[4]))
    /\ UNCHANGED <<m_world, m_viewport, m_mapper, clockVars, seekVars, mainVars>>

MapperNext == MapperConstruct \/ MapPoints

SpecMapper == MapperInit /\ [][MapperNext]_vars

Degenerate(r) == r[1] = r[3] \/ r[2] = r[4]
Constructed == m_mapper.status # "none"

\* C6: constructing the mapper with a world or viewport rectangle of zero
\* width or height fails with an error; no mapper is returned.
DegenerateRectangleRejected ==
    (Constructed /\ (Degenerate(m_world) \/ Degenerate(m_viewport))) =>
        m_mapper.status = "ZeroDivisionError"

\* the world point (1, 0) was mapped with world (-1,-1,1,1) and viewport
\* (0,0,400,400)
UnitPointMapped ==
    /\ m_world = <<-1, -1, 1, 1>>
    /\ m_viewport = <<0, 0, 400, 400>>
    /\ m_out # <<>>
    /\ m_pts[1] = 1 /\ m_pts[2] = 0

\* C7 as stated: with world (-1,-1,1,1) and viewport (0,0,400,400) the scale
\* factor is 1 and the world point (1,0) maps to the screen point (400, 200).
UnitSquareScaleOne ==
    UnitPointMapped =>
        /\ m_mapper.factor = RInt(1)
        /\ m_out[1] = <<RInt(400), RInt(200)>>

\* C7 as amended: with world (-1,-1,1,1) and viewport (0,0,400,400) the scale
\* factor is 200 and the world point (1,0) maps to the screen point (400, 200).
UnitSquareScale200 ==
    UnitPointMapped =>
        /\ m_mapper.factor = RInt(200)
        /\ m_out[1] = <<RInt(400), RInt(200)>>

\* the two independent scale factors of the rectangles given
XFactor == Rat(m_viewport[3] - m_viewport[1], m_world[3] - m_world[1])
YFactor == Rat(m_viewport[4] - m_viewport[2], m_world[4] - m_world[2])
PositiveExtents(r) == r[1] < r[3] /\ r[2] < r[4]

\* the two points mapped are opposite corners of a square of side s > 0
SquareMapped ==
    /\ m_out # <<>>
    /\ m_pts[3] > m_pts[1]
    /\ m_pts[3] - m_pts[1] = m_pts[4] - m_pts[2]

\* C8: for world and viewport rectangles of positive extents the mapper uses
\* the single factor f = min(fx, fy) on both axes: a square of side s maps
\* to a screen rectangle of width f*s and height f*s.
UniformScale ==
    (SquareMapped /\ PositiveExtents(m_world) /\ PositiveExtents(m_viewport)) =>
        LET f == IF RLess(YFactor, XFactor) THEN YFactor ELSE XFactor
            side == RMul(f, RInt(m_pts[3] - m_pts[1]))
        IN  /\ m_mapper.factor = f
            /\ RAbs(RSub(m_out[2][1], m_out[1][1])) = side
            /\ RAbs(RSub(m_out[2][2], m_out[1][2])) = side

\* a square was mapped where the two factors differ and y is the smaller
SquareMappedLetterboxed ==
    /\ SquareMapped
    /\ PositiveExtents(m_world) /\ PositiveExtents(m_viewport)
    /\ RLess(YFactor, XFactor)

----------------------------------------------------------------------------
(* main *)

\* argv[0]
Prog == <<"c", "l", "o", "c", "k">>
\* the strings given as arguments, each a sequence of characters
Tokens == { <<"5">>, <<"-", "3">>, <<"4", "0", "0">>, <<"T", "r", "u", "e">>,
            <<"a", "b", "c">> }

Digits == <<"0", "1", "2", "3", "4", "5", "6", "7", "8", "9">>
IsDigit(c) == \E i \in 1 .. 10 : Digits[i] = c
DigitValue(c) == (CHOOSE i \in 1 .. 10 : Digits[i] = c) - 1

RECURSIVE DigitsValue(_, _)
DigitsValue(str, acc) ==
    IF str = <<>> THEN acc ELSE DigitsValue(Tail(str), 10 * acc + DigitValue(Head(str)))

\* int(str): an optional sign and one or more digits, ValueError otherwise
ParseInt(str) ==
    LET signed == str # <<>> /\ Head(str) \in {"-", "+"}
        body == IF signed THEN Tail(str) ELSE str
        ok == body # <<>> /\ \A i \in 1 .. Len(body) : IsDigit(body[i])
    IN  [ok |-> ok,
         value |-> IF ~ok THEN 0
                   ELSE IF signed /\ Head(str) = "-" THEN -DigitsValue(body, 0)
                   ELSE DigitsValue(body, 0)]

IsTrue(str) == str = <<"T", "r", "u", "e">>

Outcome(status, dh, show, w, h, thr) ==
    [status |-> status, delta_hours |-> dh, is_show_image |-> show,
     width |-> w, height |-> h, is_use_thread |-> thr]
NoWindow(status) == Outcome(status, 0, FALSE, 0, 0, FALSE)

\* main(argv): a[k] of the source is a[k + 1] here.  "exit1" is the printed
\* message and return 1, "IndexError" the exception that leaves main,
\* "window" the clock window created with the given arguments.
main(a) ==
    IF Len(a) > 2
    THEN LET dh == ParseInt(a[2])
         IN  IF ~dh.ok THEN NoWindow("exit1")
             ELSE IF Len(a) < 4 THEN NoWindow("IndexError")
             ELSE LET w == ParseInt(a[4])
                  IN  IF ~w.ok THEN NoWindow("exit1")
                      ELSE IF Len(a) < 5 THEN NoWindow("IndexError")
                      ELSE LET h == ParseInt(a[5])
                           IN  IF ~h.ok THEN NoWindow("exit1")
                               ELSE IF Len(a) < 6 THEN NoWindow("IndexError")
                               ELSE Outcome("window", dh.value, IsTrue(a[3]),
                                            w.value, h.value, IsTrue(a[6]))
    ELSE Outcome("window", 5, TRUE, 400, 400, FALSE)

RECURSIVE ArgLists(_)
ArgLists(n) ==
    IF n = 1 THEN {<<Prog>>}
    ELSE {Append(l, t) : l \in ArgLists(n - 1), t \in Tokens}

MainInit ==
    /\ \E n \in 1 .. MaxArgs : argv \in ArgLists(n)
    /\ outcome = NoWindow("none")
    /\ IdleClock /\ IdleSeek /\ IdleMapper

MainRuns ==
    /\ outcome.status = "none"
    /\ outcome' = main(argv)
    /\ UNCHANGED <<argv, clockVars, seekVars, mapperVars>>

MainNext == MainRuns

SpecMain == MainInit /\ [][MainNext]_vars

\* an integer argument (time zone, width or height) was given and is no integer
MalformedInteger ==
    \E i \in {2, 4, 5} : i <= Len(argv) /\ ~ParseInt(argv[i]).ok

\* C9: whatever the length of the argument list, when a supplied integer
\* argument is malformed main prints a message and returns 1 before any
\* window is created.
MalformedIntegerExits ==
    (outcome.status # "none" /\ MalformedInteger) => outcome.status = "exit1"

====
